---- MODULE Spec2Model ----
\* Verification model of gitowner: the multi-repository owner ranking
\* (gitowner.go) and the two single-repository variants of topOwnersLocal.
EXTENDS Integers, Sequences, FiniteSets, TLC

\* ---------------------------------------------------------------- bounds
MaxRepos == 2      \* repository paths on the command line: 0..MaxRepos
MaxCommits == 2    \* commits the history walks of one run yield in all: 0..MaxCommits
MaxCount == 2      \* --count ranges over -1..MaxCount
MaxAliases == 2    \* aliases per declared group in the alias-file specification
Scale == 100       \* float64 values are kept in units of 1/Scale
Terms == 6         \* terms of the exponential series

\* ---------------------------------------------------------------- strings
\* A Go string is its sequence of bytes.
sEmpty == << >>
sSpace == <<32>>
sA == <<97>>
sB == <<98>>
sC == <<99>>
sX == <<120>>
sUpB == <<66>>
sUpXsp == <<88, 32>>
sR1 == <<114, 49>>
sR2 == <<114, 50>>

ToLowerByte(c) == IF c \in 65..90 THEN c + 32 ELSE c

ToLower(s) == [i \in 1..Len(s) |-> ToLowerByte(s[i])]

IsSpace(c) == c \in {9, 10, 11, 12, 13, 32}

RECURSIVE TrimLeft(_)
TrimLeft(s) == IF s # << >> /\ IsSpace(Head(s)) THEN TrimLeft(Tail(s)) ELSE s

RECURSIVE TrimRight(_)
TrimRight(s) ==
    IF s # << >> /\ IsSpace(s[Len(s)]) THEN TrimRight(SubSeq(s, 1, Len(s) - 1)) ELSE s

TrimSpace(s) == TrimRight(TrimLeft(s))

\* strings.ToLower(strings.TrimSpace(x))
Normalize(s) == ToLower(TrimSpace(s))

\* Go's s < t on strings: bytewise lexicographic.
RECURSIVE StrLess(_, _)
StrLess(s, t) ==
    IF t = << >> THEN FALSE
    ELSE IF s = << >> THEN TRUE
    ELSE IF Head(s) # Head(t) THEN Head(s) < Head(t)
    ELSE StrLess(Tail(s), Tail(t))

\* ---------------------------------------------------------------- maps
EmptyMap == << >>

Put(f, k, v) == [x \in DOMAIN f \cup {k} |-> IF x = k THEN v ELSE f[x]]

Perms(S) == {p \in [1..Cardinality(S) -> S] : \A x \in S : \E i \in DOMAIN p : p[i] = x}

SeqsUpTo(S, n) == UNION {[1..m -> S] : m \in 0..n}

\* ---------------------------------------------------------------- float64
\* A finite float64 v is the integer v * Scale; NaN and +Inf are tagged values.
NaN == -1
PosInf == -2

IsNaN(a) == a = NaN

FAdd(a, b) ==
    IF IsNaN(a) \/ IsNaN(b) THEN NaN
    ELSE IF a = PosInf \/ b = PosInf THEN PosInf
    ELSE a + b

FMul(a, b) ==
    IF IsNaN(a) \/ IsNaN(b) THEN NaN
    ELSE IF a = PosInf \/ b = PosInf
         THEN (IF a = 0 \/ b = 0 THEN NaN ELSE PosInf)
    ELSE (a * b) \div Scale

FGt(a, b) ==
    /\ ~IsNaN(a)
    /\ ~IsNaN(b)
    /\ \/ a = PosInf /\ b # PosInf
       \/ a # PosInf /\ b # PosInf /\ a > b

FEq(a, b) == ~IsNaN(a) /\ ~IsNaN(b) /\ a = b

\* The k-th term of the series of e^(n/d), n >= 0 and d > 0, from the one before:
\* x^k / k! = (x^(k-1) / (k-1)!) * n / (d * k).
RECURSIVE ExpTerm(_, _, _)
ExpTerm(n, d, k) == IF k = 0 THEN Scale ELSE (ExpTerm(n, d, k - 1) * n) \div (d * k)

RECURSIVE ExpSeries(_, _, _)
ExpSeries(n, d, k) == IF k < 0 THEN 0 ELSE ExpTerm(n, d, k) + ExpSeries(n, d, k - 1)

\* math.Exp(num / den) for the quotient of two float64 values that are the
\* integers num and den; num = 0 stands for -0.0 or +0.0 alike.
Exp(num, den) ==
    IF den = 0
    THEN (IF num = 0 THEN NaN ELSE IF num > 0 THEN PosInf ELSE 0)
    ELSE LET n == IF den < 0 THEN -num ELSE num
             d == IF den < 0 THEN -den ELSE den
         IN  IF n >= 0 THEN ExpSeries(n, d, Terms)
             ELSE (Scale * Scale) \div ExpSeries(-n, d, Terms)

\* ---------------------------------------------------------------- loadAliases
\* The decoded alias file: config.Aliases, raw canonical key -> list of raw
\* aliases.  `order` is the order in which `range config.Aliases` yields the keys.
\* A warning records its kind and the identifiers its text names.
Warn(kind, names) == [kind |-> kind, names |-> names]

\* lines 70-89: one alias of the group of `canonical`
AliasEntry(st, config, canonical, rawAlias) ==
    LET alias == Normalize(rawAlias)
    IN  IF alias = sEmpty \/ alias = canonical THEN st
        ELSE LET exists == alias \in DOMAIN st.aliasMap
                 w1 == IF exists /\ st.aliasMap[alias] # canonical
                       THEN <<Warn("multiple", <<alias, st.aliasMap[alias], canonical>>)>>
                       ELSE << >>
                 w2 == IF alias \in DOMAIN config
                       THEN <<Warn("aliasIsCanonical", <<alias, canonical>>)>>
                       ELSE << >>
             IN  [aliasMap   |-> Put(st.aliasMap, alias, canonical),
                  duplicates |-> IF exists THEN Put(st.duplicates, alias, canonical)
                                 ELSE st.duplicates,
                  warnings   |-> st.warnings \o w1 \o w2]

RECURSIVE AliasList(_, _, _, _)
AliasList(st, config, canonical, list) ==
    IF list = << >> THEN st
    ELSE AliasList(AliasEntry(st, config, canonical, Head(list)), config, canonical, Tail(list))

\* lines 57-90: one iteration of the loop over the declared groups
AliasGroup(st, config, rawKey) ==
    LET canonical == Normalize(rawKey)
    IN  IF canonical = sEmpty THEN st
        ELSE IF canonical \in DOMAIN st.aliasMap
        THEN [st EXCEPT !.warnings =
                 @ \o <<Warn("canonicalIsAlias", <<canonical, st.aliasMap[canonical]>>)>>]
        ELSE AliasList(st, config, canonical, config[rawKey])

RECURSIVE AliasGroups(_, _, _)
AliasGroups(st, config, order) ==
    IF order = << >> THEN st
    ELSE AliasGroups(AliasGroup(st, config, Head(order)), config, Tail(order))

\* lines 91-94: the recorded duplicates are written back
ApplyDuplicates(st) ==
    [x \in DOMAIN st.aliasMap |->
        IF x \in DOMAIN st.duplicates THEN st.duplicates[x] ELSE st.aliasMap[x]]

\* loadAliases on a readable, parsable file: the table and the warnings
loadAliases(config, order) ==
    LET st == AliasGroups([aliasMap |-> EmptyMap, duplicates |-> EmptyMap, warnings |-> << >>],
                          config, order)
    IN  [aliasMap |-> ApplyDuplicates(st), warnings |-> st.warnings]

\* lines 101-107
getCanonicalEmail(email, aliasMap) ==
    LET normalizedEmail == Normalize(email)
    IN  IF normalizedEmail \in DOMAIN aliasMap THEN aliasMap[normalizedEmail]
        ELSE normalizedEmail

\* ---------------------------------------------------------------- inputs
\* time.Time in whole hours since the zero instant; IsZero is "= 0".
IsZero(t) == t = 0

Progs == {"gitowner", "part_000", "part_001"}
TauSet == {-1, 0, 2}                 \* --tau, in days
BonusSet == {0 - (Scale \div 10), 0, Scale \div 10}   \* --bonus-per-repo: -0.1, 0, 0.1
CountSet == -1..MaxCount             \* --count
Paths == {sR1, sR2}
NowSet == {48}                       \* time.Now()
Authors == {sEmpty, sSpace, sA, sUpXsp}
Whens == {0, 24, 72}                 \* zero time, one day before now, one day after
Commits == [author : Authors, when : Whens]

\* What os.ReadFile and toml.Decode find behind --aliases-file.
AliasFile(state, config) == [state |-> state, config |-> config]
AliasFiles ==
    {AliasFile(st, EmptyMap) : st \in {"noflag", "missing", "unreadable", "unparsable"}}
    \cup {AliasFile("ok", cfg) : cfg \in {(sA :> <<sX, sSpace>>)}}

\* Every alias specification over three raw keys ("a", "b", "B") whose groups
\* list at most MaxAliases of four raw aliases ("x", "b", "c", " ").
RawKeys == {sA, sB, sUpB}
RawAliases == {sX, sB, sC, sSpace}
AliasSpecs ==
    UNION {[keys -> SeqsUpTo(RawAliases, MaxAliases)] : keys \in SUBSET RawKeys}
WideAliasFiles == {AliasFile("ok", cfg) : cfg \in AliasSpecs}

VARIABLES
    prog,          \* which of the three programs runs
    pc,            \* the position of main
    tau, bonusPerRepo, repoPaths,    \* --tau, --bonus-per-repo and flag.Args()
    count,         \* --count; nothing reads it before the output, where it is drawn
    config,        \* config.Aliases as decoded from the alias file
    groupOrder,    \* the order in which the range over config.Aliases yielded its keys
    aliasMap,      \* alias -> canonical
    created,       \* whether the accumulator maps exist (gitowner.go lines 212-214)
    userScores, userRepos, userAliases,     \* the run-wide accumulators
    i,             \* index into repoPaths of the repository in hand
    now,           \* time.Now() of the walk in progress
    yielded,       \* the number of commits the walks of this run have yielded so far
    entry,         \* the accumulators as they were when the walk in progress began
    stdout, stderr,
    owners,        \* the sorted []OwnerScore
    shown          \* the owner lines printed

vars == <<prog, pc, tau, bonusPerRepo, count, repoPaths, config, groupOrder, aliasMap,
          created,
          userScores, userRepos, userAliases, i, now, yielded, entry, stdout, stderr,
          owners, shown>>

flags == <<prog, tau, bonusPerRepo, count, repoPaths>>
aliasVars == <<config, groupOrder, aliasMap>>
accs == <<userScores, userRepos, userAliases>>
walk == <<now, yielded, entry>>

Acc == [scores |-> userScores, repos |-> userRepos, aliases |-> userAliases]

NoAcc == [scores |-> EmptyMap, repos |-> EmptyMap, aliases |-> EmptyMap]

Init ==
    /\ prog \in Progs
    /\ pc = "start"
    /\ tau \in TauSet
    /\ bonusPerRepo \in (IF prog = "gitowner" THEN BonusSet ELSE {0})
    /\ count = 0
    /\ repoPaths \in SeqsUpTo(Paths, MaxRepos)
    /\ config = EmptyMap
    /\ groupOrder = << >>
    /\ aliasMap = EmptyMap
    /\ created = FALSE
    /\ userScores = EmptyMap
    /\ userRepos = EmptyMap
    /\ userAliases = EmptyMap
    /\ i = 1
    /\ now = 0
    /\ yielded = 0
    /\ entry = NoAcc
    /\ stdout = << >>
    /\ stderr = << >>
    /\ owners = << >>
    /\ shown = << >>

\* ---------------------------------------------------------------- gitowner.go main
\* lines 187-196
Validate ==
    /\ prog = "gitowner"
    /\ pc = "start"
    /\ pc' = IF Len(repoPaths) = 0 THEN "exit1"
             ELSE IF bonusPerRepo < 0 THEN "exit1"
             ELSE "aliases"
    /\ UNCHANGED <<flags, aliasVars, created, accs, i, walk, stdout, stderr, owners, shown>>

\* lines 198-216 with loadAliases lines 33-98
LoadAliasesFrom(files) ==
    /\ prog = "gitowner"
    /\ pc = "aliases"
    /\ \E f \in files :
         \/ /\ f.state \in {"noflag", "missing"}
            /\ stderr' = stderr
            /\ UNCHANGED aliasVars
            /\ created' = TRUE
            /\ pc' = "loop"
         \/ /\ f.state \in {"unreadable", "unparsable"}
            /\ stderr' = stderr \o <<Warn("aliasError", <<f.state>>)>>
            /\ UNCHANGED <<aliasVars, created>>
            /\ pc' = "exit1"
         \/ /\ f.state = "ok"
            /\ config' = f.config
            /\ \E o \in Perms(DOMAIN f.config) :
                 LET r == loadAliases(f.config, o)
                 IN  /\ groupOrder' = o
                     /\ aliasMap' = r.aliasMap
                     /\ stderr' = stderr \o r.warnings
            /\ created' = TRUE
            /\ pc' = "loop"
    /\ UNCHANGED <<flags, accs, i, walk, stdout, owners, shown>>

LoadAliases == LoadAliasesFrom(AliasFiles)

\* The same step over every alias specification of AliasSpecs.
LoadAliasSpec == LoadAliasesFrom(WideAliasFiles)

\* lines 146-151: the weight of a commit, ages in hours (daysAgo = hours / 24)
weight(when, at, t) ==
    LET hours == at - when
        daysAgo == IF hours < 0 THEN 0 ELSE hours
    IN  Exp(0 - daysAgo, 24 * t)

Lookup(f, key, default) == IF key \in DOMAIN f THEN f[key] ELSE default

\* lines 131-169: the callback of commitIter.ForEach on one commit
foldCommit(acc, c, repoPath, at, t, table) ==
    IF IsZero(c.when) THEN acc
    ELSE IF c.author = sEmpty THEN acc
    ELSE LET canonicalEmail == getCanonicalEmail(c.author, table)
             originalNormalized == Normalize(c.author)
         IN  [scores  |-> Put(acc.scores, canonicalEmail,
                              FAdd(Lookup(acc.scores, canonicalEmail, 0),
                                   weight(c.when, at, t))),
              repos   |-> Put(acc.repos, canonicalEmail,
                              Lookup(acc.repos, canonicalEmail, {}) \cup {repoPath}),
              aliases |-> IF originalNormalized # canonicalEmail
                          THEN Put(acc.aliases, canonicalEmail,
                                   Lookup(acc.aliases, canonicalEmail, {})
                                       \cup {originalNormalized})
                          ELSE acc.aliases]

Line(tag, path) == <<tag, path>>

\* What main does with the error processRepoCommits returned (lines 222-226)
\* before it moves to the next path.
onRepoError(err, path) == err \o <<Warn("skipping", <<path>>)>>

\* lines 219-221 and 112-129: the call, up to the start of the walk
RepoOpen ==
    /\ prog = "gitowner"
    /\ pc = "loop"
    /\ i <= Len(repoPaths)
    /\ stdout' = stdout \o <<Line("Processing", repoPaths[i])>>
    /\ \/ /\ \E kind \in {"open", "head", "log"} :
               stderr' = onRepoError(stderr, repoPaths[i])
          /\ i' = i + 1
          /\ pc' = "loop"
          /\ UNCHANGED <<now, entry>>
       \/ /\ now' \in NowSet
          /\ entry' = Acc
          /\ pc' = "iter"
          /\ UNCHANGED <<stderr, i>>
    /\ yielded' = yielded
    /\ UNCHANGED <<flags, aliasVars, created, accs, owners, shown>>

\* lines 131-169: the walk yields one more commit
ForEachCommit ==
    /\ prog = "gitowner"
    /\ pc = "iter"
    /\ yielded < MaxCommits
    /\ \E c \in Commits :
         LET a == foldCommit(Acc, c, repoPaths[i], now, tau, aliasMap)
         IN  /\ userScores' = a.scores
             /\ userRepos' = a.repos
             /\ userAliases' = a.aliases
    /\ yielded' = yielded + 1
    /\ UNCHANGED <<flags, pc, aliasVars, created, i, now, entry, stdout, stderr, owners, shown>>

\* As IterFail, but the failure ends the run.
IterFailAborts ==
    /\ prog = "gitowner"
    /\ pc = "iter"
    /\ stderr' = onRepoError(stderr, repoPaths[i])
    /\ pc' = "exit1"
    /\ now' = 0 /\ entry' = NoAcc /\ yielded' = yielded
    /\ UNCHANGED <<flags, aliasVars, created, accs, i, stdout, owners, shown>>

\* lines 170-173 and 222-226: the walk fails
IterFail ==
    /\ prog = "gitowner"
    /\ pc = "iter"
    /\ stderr' = onRepoError(stderr, repoPaths[i])
    /\ i' = i + 1
    /\ pc' = "loop"
    /\ now' = 0 /\ entry' = NoAcc /\ yielded' = yielded
    /\ UNCHANGED <<flags, aliasVars, created, accs, stdout, owners, shown>>

\* lines 175-176: the walk ends
IterDone ==
    /\ prog = "gitowner"
    /\ pc = "iter"
    /\ stdout' = stdout \o <<Line("Finished", repoPaths[i])>>
    /\ i' = i + 1
    /\ pc' = "loop"
    /\ now' = 0 /\ entry' = NoAcc /\ yielded' = yielded
    /\ UNCHANGED <<flags, aliasVars, created, accs, stderr, owners, shown>>

\* line 219: the range over repoPaths is exhausted
LoopEnd ==
    /\ prog = "gitowner"
    /\ pc = "loop"
    /\ i > Len(repoPaths)
    /\ pc' = "final"
    /\ UNCHANGED <<flags, aliasVars, created, accs, i, walk, stdout, stderr, owners, shown>>

\* ---------------------------------------------------------------- ranking
\* sort.Strings on the members of a set
sortStrings(S) ==
    CHOOSE q \in Perms(S) : \A a, b \in DOMAIN q : a < b => StrLess(q[a], q[b])

\* lines 251-256
finalScore(rawScore, repoCount, bonus) ==
    LET bonusFactor == IF repoCount > 1 THEN Scale + ((repoCount - 1) * bonus) ELSE Scale
    IN  FMul(rawScore, bonusFactor)

\* lines 236-265: one OwnerScore per key, in the order the map yields the keys
buildOwners(order) ==
    [n \in DOMAIN order |->
        LET canonicalEmail == order[n]
            repoCount == Cardinality(Lookup(userRepos, canonicalEmail, {}))
        IN  [Email       |-> canonicalEmail,
             Score       |-> finalScore(userScores[canonicalEmail], repoCount, bonusPerRepo),
             RepoCount   |-> repoCount,
             RawScore    |-> userScores[canonicalEmail],
             AliasesUsed |-> sortStrings(Lookup(userAliases, canonicalEmail, {}))]]

\* lines 268-278: the comparator of gitowner.go
lessMain(a, b) ==
    IF FEq(a.Score, b.Score)
    THEN (IF a.RepoCount = b.RepoCount THEN StrLess(a.Email, b.Email)
          ELSE a.RepoCount > b.RepoCount)
    ELSE FGt(a.Score, b.Score)

\* part_000 lines 68-70, part_001 lines 58-60
lessLocal(a, b) == FGt(a.Score, b.Score)

less(cmp, a, b) == IF cmp = "main" THEN lessMain(a, b) ELSE lessLocal(a, b)

Swap(s, a, b) == [s EXCEPT ![a] = s[b], ![b] = s[a]]

\* sort.Slice on a slice of at most 12 elements is an insertion sort:
\* for i := 1; i < n; i++ { for j := i; j > 0 && less(j, j-1); j-- { swap(j, j-1) } }
RECURSIVE sift(_, _, _)
sift(s, j, cmp) ==
    IF j > 1 /\ less(cmp, s[j], s[j - 1]) THEN sift(Swap(s, j, j - 1), j - 1, cmp) ELSE s

RECURSIVE insertionSort(_, _, _)
insertionSort(s, n, cmp) ==
    IF n > Len(s) THEN s ELSE insertionSort(sift(s, n, cmp), n + 1, cmp)

sortSlice(s, cmp) == insertionSort(s, 2, cmp)

\* lines 228-278
Final ==
    /\ prog = "gitowner"
    /\ pc = "final"
    /\ \/ /\ DOMAIN userScores = {}
          /\ pc' = "exit0"
          /\ owners' = owners
       \/ /\ DOMAIN userScores # {}
          /\ \E order \in Perms(DOMAIN userScores) :
               owners' = sortSlice(buildOwners(order), "main")
          /\ pc' = "ranked"
    /\ UNCHANGED <<flags, aliasVars, created, accs, i, walk, stdout, stderr, shown>>

\* As limitOf, but one entry too many is kept when the list is cut.
limitOfPlusOne(n, c) == IF n <= c THEN n ELSE c + 1

\* lines 295-299
limitOf(n, c) == IF n < c THEN n ELSE c

\* lines 295-313
Output ==
    /\ prog = "gitowner"
    /\ pc = "ranked"
    /\ \E c \in CountSet :
         LET limit == limitOf(Len(owners), c)
         IN  /\ count' = c
             /\ IF limit < 0
                THEN pc' = "panic" /\ shown' = shown
                ELSE pc' = "done" /\ shown' = SubSeq(owners, 1, limit)
    /\ UNCHANGED <<prog, tau, bonusPerRepo, repoPaths, aliasVars, created, accs, i, walk,
                   stdout, stderr, owners>>

\* ---------------------------------------------------------------- topOwnersLocal
\* The two single-repository programs hold the same statements; part_001 is the
\* Spanish-commented copy of part_000.

\* part_000 lines 52-53
weightLocal000(when, at, t) == Exp(0 - (at - when), 24 * t)

\* part_001 lines 42-43
weightLocal001(when, at, t) == Exp(0 - (at - when), 24 * t)

weightLocal(p, when, at, t) ==
    IF p = "part_000" THEN weightLocal000(when, at, t) ELSE weightLocal001(when, at, t)

\* part_000 lines 72-75, part_001 lines 62-65: the length of the slice returned
truncateLocal(n, c) == IF n > c THEN c ELSE n

\* main of the variant: part_000 lines 85-90
LocalStart ==
    /\ prog # "gitowner"
    /\ pc = "start"
    /\ pc' = IF Len(repoPaths) < 1 THEN "exit1" ELSE "open"
    /\ UNCHANGED <<flags, aliasVars, created, accs, i, walk, stdout, stderr, owners, shown>>

\* part_000 lines 32-48
LocalOpen ==
    /\ prog # "gitowner"
    /\ pc = "open"
    /\ \/ /\ \E kind \in {"open", "head", "log"} :
               stdout' = stdout \o <<Line("Error", <<kind>>)>>
          /\ pc' = "exit1"
          /\ now' = now
       \/ /\ now' \in NowSet
          /\ pc' = "iter"
          /\ stdout' = stdout
    /\ yielded' = yielded
    /\ UNCHANGED <<flags, aliasVars, created, accs, i, entry, stderr, owners, shown>>

\* part_000 lines 50-56
LocalCommit ==
    /\ prog # "gitowner"
    /\ pc = "iter"
    /\ yielded < MaxCommits
    /\ \E c \in Commits :
         userScores' = Put(userScores, c.author,
                           FAdd(Lookup(userScores, c.author, 0),
                                weightLocal(prog, c.when, now, tau)))
    /\ yielded' = yielded + 1
    /\ UNCHANGED <<flags, pc, aliasVars, created, userRepos, userAliases, i, now, entry,
                   stdout, stderr, owners, shown>>

\* part_000 lines 57-59 and 92-95
LocalIterFail ==
    /\ prog # "gitowner"
    /\ pc = "iter"
    /\ stdout' = stdout \o <<Line("Error", <<"iterate">>)>>
    /\ pc' = "exit1"
    /\ now' = 0 /\ yielded' = yielded
    /\ UNCHANGED <<flags, aliasVars, created, accs, i, entry, stderr, owners, shown>>

\* part_000 lines 61-77 and 97-100
LocalFinish ==
    /\ prog # "gitowner"
    /\ pc = "iter"
    /\ \E order \in Perms(DOMAIN userScores), c \in CountSet :
         LET all == sortSlice([n \in DOMAIN order |->
                                  [Email |-> order[n], Score |-> userScores[order[n]]]],
                              "local")
             n == truncateLocal(Len(all), c)
         IN  /\ count' = c
             /\ owners' = all
             /\ IF n < 0
                THEN pc' = "panic" /\ shown' = shown
                ELSE pc' = "done" /\ shown' = SubSeq(all, 1, n)
    /\ now' = 0 /\ yielded' = yielded
    /\ UNCHANGED <<prog, tau, bonusPerRepo, repoPaths, aliasVars, created, accs, i, entry,
                   stdout, stderr>>

\* ---------------------------------------------------------------- specification
Next ==
    \/ Validate
    \/ LoadAliases
    \/ RepoOpen
    \/ ForEachCommit
    \/ IterFail
    \/ IterDone
    \/ LoopEnd
    \/ Final
    \/ Output
    \/ LocalStart
    \/ LocalOpen
    \/ LocalCommit
    \/ LocalIterFail
    \/ LocalFinish

Spec == Init /\ [][Next]_vars

\* The alias loader alone, over every alias specification of AliasSpecs, in a
\* run with one repository and the default bonus.
InitAlias ==
    /\ Init
    /\ prog = "gitowner"
    /\ tau = 2
    /\ bonusPerRepo = Scale \div 10
    /\ repoPaths = <<sR1>>

NextAlias == Validate \/ LoadAliasSpec

SpecAlias == InitAlias /\ [][NextAlias]_vars

\* Every step of main is taken: the program runs on until it exits.
FairSpec == Spec /\ WF_vars(Next)

\* ================================================================ claims

\* ---------------------------------------------------------------- alias table
Loaded == prog = "gitowner" /\ pc = "loop" /\ DOMAIN config # {}

\* The normalized, non-empty canonical of a declared group.
CanonicalOf(rawKey) == Normalize(rawKey)

\* The normalized aliases a group declares for its canonical.
AliasesOf(rawKey) ==
    {Normalize(config[rawKey][n]) : n \in DOMAIN config[rawKey]}
        \ {sEmpty, CanonicalOf(rawKey)}

Groups == {g \in DOMAIN config : CanonicalOf(g) # sEmpty}

\* The groups that claim alias x.
Claimants(x) == {g \in Groups : x \in AliasesOf(g)}

\* An alias that two groups map to two different canonical identifiers.
Contested(x) == \E g, h \in Claimants(x) : CanonicalOf(g) # CanonicalOf(h)

\* A canonical identifier of one group that another group lists as an alias.
CanonicalAsAlias(c) ==
    \E g, h \in Groups : CanonicalOf(g) = c /\ c \in AliasesOf(h)

Named(x) == \E n \in DOMAIN stderr : \E m \in DOMAIN stderr[n].names : stderr[n].names[m] = x

Position(g) == CHOOSE n \in DOMAIN groupOrder : groupOrder[n] = g

LastClaimant(x) ==
    CHOOSE g \in Claimants(x) : \A h \in Claimants(x) : Position(h) <= Position(g)

\* C4: for a fixed set of declared groups loadAliases returns the same table
\* whatever order the groups are iterated in.
C4_TableIndependentOfOrder ==
    Loaded => \A o \in Perms(DOMAIN config) : loadAliases(config, o).aliasMap = aliasMap

\* C5: no value of the table is also a key of the table mapped to a different
\* canonical identifier, so every identifier resolves in one hop to an identifier
\* that resolves to itself.
C5_NoChains ==
    Loaded =>
        /\ \A a \in DOMAIN aliasMap :
             aliasMap[a] \in DOMAIN aliasMap => aliasMap[aliasMap[a]] = aliasMap[a]
        /\ \A x \in DOMAIN aliasMap \cup RawKeys :
             getCanonicalEmail(getCanonicalEmail(x, aliasMap), aliasMap)
                 = getCanonicalEmail(x, aliasMap)

\* C6: every alias mapped to two different canonical identifiers, and every
\* canonical identifier that is also an alias in another group, is named by a
\* warning; the table is returned; an alias claimed by two groups maps to the
\* canonical of the group processed later.
C6_AmbiguityWarnedLastWins ==
    Loaded =>
        \A x \in UNION {AliasesOf(g) : g \in Groups} \cup {CanonicalOf(g) : g \in Groups} :
            /\ (Contested(x) \/ CanonicalAsAlias(x)) => Named(x)
            /\ Contested(x) =>
                 x \in DOMAIN aliasMap /\ aliasMap[x] = CanonicalOf(LastClaimant(x))

\* ---------------------------------------------------------------- repositories
Main == prog = "gitowner"

\* A step in which processRepoCommits returns an error to main.
RepoFails == Main /\ pc \in {"loop", "iter"} /\ pc' = "loop" /\ stderr' # stderr

\* C1: when processRepoCommits returns an error, the accumulator maps are exactly
\* what they were before that call.
C1_FailedRepoLeavesNoTrace ==
    [][RepoFails => Acc' = (IF pc = "iter" THEN entry ELSE Acc)]_vars

\* C3: a negative bonusPerRepo, a tau that is not strictly positive, or an empty
\* list of repositories aborts the run before the alias table is loaded, before
\* any repository is processed and before any accumulator is created.
ConfigError == bonusPerRepo < 0 \/ tau <= 0 \/ Len(repoPaths) = 0

C3_ConfigErrorsAbortFirst ==
    (Main /\ ConfigError) =>
        /\ pc \in {"start", "exit1"}
        /\ ~created
        /\ aliasMap = EmptyMap /\ groupOrder = << >>
        /\ stdout = << >> /\ stderr = << >>

\* C7: a commit whose timestamp is zero, or whose author identifier is empty once
\* normalized, changes no accumulator, and no accumulator is ever keyed by the
\* empty string.
Unattributable(c) == IsZero(c.when) \/ Normalize(c.author) = sEmpty

C7_UnattributableCommitsSkipped ==
    Main =>
        /\ sEmpty \notin DOMAIN userScores \cup DOMAIN userRepos \cup DOMAIN userAliases
        /\ pc = "iter" =>
             \A c \in Commits :
                 Unattributable(c) =>
                     foldCommit(Acc, c, repoPaths[i], now, tau, aliasMap) = Acc

\* C8: in every scoring routine a commit dated after the observation time gets
\* exactly the weight of a commit of age 0, and of two commits not dated after
\* the observation time the older never gets the larger weight.
weightIn(p, when) ==
    IF p = "gitowner" THEN weight(when, now, tau) ELSE weightLocal(p, when, now, tau)

C8_WeightClampedAndMonotone ==
    pc = "iter" =>
        /\ \A when \in Whens :
             when > now => weightIn(prog, when) = weightIn(prog, now)
        /\ \A older, newer \in Whens \cup {now} :
             (older <= newer /\ newer <= now) =>
                 ~FGt(weightIn(prog, older), weightIn(prog, newer))

\* ---------------------------------------------------------------- ranking
\* a is ranked strictly before b by the composite order of the ranking.
Before(a, b) ==
    \/ FGt(a.Score, b.Score)
    \/ FEq(a.Score, b.Score) /\ a.RepoCount > b.RepoCount
    \/ FEq(a.Score, b.Score) /\ a.RepoCount = b.RepoCount /\ StrLess(a.Email, b.Email)

\* C9: whatever order the accumulator map is iterated in, the ranked list is the
\* same sequence, and each entry is strictly before its successor: by final
\* score, then by repository count, then by canonical id.
C9_RankingIsOneTotalOrder ==
    (Main /\ pc = "ranked") =>
        /\ \A o \in Perms(DOMAIN userScores) :
             sortSlice(buildOwners(o), "main") = owners
        /\ \A n \in 1..(Len(owners) - 1) : Before(owners[n], owners[n + 1])

\* ---------------------------------------------------------------- truncation
Min(a, b) == IF a < b THEN a ELSE b

\* C10: for every limit >= 0 the entries printed are exactly the first
\* min(limit, n) entries of the n-entry sorted list, in the same order.
C10_TruncationIsPrefix ==
    /\ (pc \in {"done", "panic"} /\ count >= 0) =>
         /\ pc = "done"
         /\ Len(owners) = Cardinality(DOMAIN userScores)
         /\ Len(shown) = Min(count, Len(owners))
         /\ Len(shown) <= count
         /\ (Len(owners) < count => Len(shown) = Len(owners))
         /\ (count = 0 => shown = << >>)
         /\ \A n \in DOMAIN shown : shown[n] = owners[n]
    /\ pc = "exit0" => shown = << >> /\ DOMAIN userScores = {}

\* Truncation happens: more owners are ranked than --count asks for.
C10_Witness ==
    /\ Main /\ pc = "done"
    /\ count = 1 /\ Len(owners) = 2
    /\ shown = <<owners[1]>>

\* ---------------------------------------------------------------- the loop over repositories
IsProcessing(l) == l[1] = "Processing"
IsFinished(l) == l[1] = "Finished"
IsSkipping(w) == w.kind = "skipping"

PathsOf(lines) == [n \in DOMAIN lines |-> lines[n][2]]

\* The repositories attempted, finished and skipped so far, in order.
Attempted == PathsOf(SelectSeq(stdout, IsProcessing))
Finished == PathsOf(SelectSeq(stdout, IsFinished))
Skipped == [n \in DOMAIN SelectSeq(stderr, IsSkipping) |->
               SelectSeq(stderr, IsSkipping)[n].names[1]]

Times(q, x) == Cardinality({n \in DOMAIN q : q[n] = x})

AfterLoop == pc \in {"final", "exit0", "ranked", "done", "panic"}

C2_State ==
    Main =>
        /\ pc = "exit1" => stdout = << >>
        /\ pc = "loop" => Attempted = SubSeq(repoPaths, 1, i - 1)
        /\ pc = "iter" => Attempted = SubSeq(repoPaths, 1, i)
        /\ AfterLoop => Attempted = repoPaths
        /\ (pc = "loop" \/ AfterLoop) =>
             \A r \in Paths : Times(Attempted, r) = Times(Finished, r) + Times(Skipped, r)

\* Owner e has a different entry in accumulator g than in f.
Differs(f, g, e) == (e \in DOMAIN f) # (e \in DOMAIN g) \/ (e \in DOMAIN f /\ f[e] # g[e])

\* The owners whose entries a step changes.
Touched ==
    {e \in DOMAIN userScores' \cup DOMAIN userRepos' \cup DOMAIN userAliases' :
        \/ Differs(userScores, userScores', e)
        \/ Differs(userRepos, userRepos', e)
        \/ Differs(userAliases, userAliases', e)}

\* A commit a walk yields changes the entries of one owner at most; that owner
\* then has a score, raised by the weight of a commit time, and is credited with
\* the repository being walked. No step takes anything out of the accumulators.
C2_Step ==
    Main =>
        /\ (pc = "iter" /\ yielded' = yielded + 1) =>
             /\ Cardinality(Touched) <= 1
             /\ \A e \in Touched :
                  /\ e \in DOMAIN userScores' /\ e \in DOMAIN userRepos'
                  /\ repoPaths[i] \in userRepos'[e]
                  /\ \E w \in Whens \ {0} :
                       userScores'[e] = FAdd(Lookup(userScores, e, 0), weight(w, now, tau))
        /\ DOMAIN userScores \subseteq DOMAIN userScores'
        /\ \A e \in DOMAIN userRepos :
             e \in DOMAIN userRepos' /\ userRepos[e] \subseteq userRepos'[e]
        /\ \A e \in DOMAIN userAliases :
             e \in DOMAIN userAliases' /\ userAliases[e] \subseteq userAliases'[e]

\* What is left of the loop: the repositories not yet returned from, whether the
\* current one is still to be opened, and the commits the walks may still yield.
Rank == <<Len(repoPaths) + 1 - i, IF pc = "loop" THEN 1 ELSE 0, MaxCommits - yielded>>

LexLess(a, b) ==
    \/ a[1] < b[1]
    \/ a[1] = b[1] /\ a[2] < b[2]
    \/ a[1] = b[1] /\ a[2] = b[2] /\ a[3] < b[3]

InLoop == Main /\ pc \in {"loop", "iter"}

\* Inside the loop a step is always possible.
C2_NeverStuck == InLoop => ENABLED (RepoOpen \/ ForEachCommit \/ IterFail \/ IterDone \/ LoopEnd)

\* A step taken inside the loop either stays in it, with less left to do, or
\* leaves it for the final calculation: no failure leads anywhere else.
C2_Progress ==
    InLoop =>
        \/ pc' = "final"
        \/ /\ pc' \in {"loop", "iter"}
           /\ \A n \in 1..3 : Rank'[n] >= 0
           /\ LexLess(Rank', Rank)

\* C2: every repository of the list is attempted exactly once, in order; each
\* one either finishes or yields a warning; what the walks contribute goes into
\* the accumulators and stays there, whatever fails afterwards; and once the
\* loop is entered no failure stops the run: a step is always possible, and each
\* step brings the loop strictly nearer to the final calculation or reaches it.
C2_FailingRepoNeverStopsRun ==
    /\ [](C2_State /\ C2_NeverStuck)
    /\ [][C2_Step /\ C2_Progress]_vars

\* Under fair scheduling of the single thread of the program, the loop, once
\* entered, ends in the final calculation.
LoopReachesFinal == (Main /\ pc = "loop") ~> (pc = "final")

\* A first repository failed in mid-walk, a second one finished, its commit is
\* in the accumulators, and the run is at the final calculation.
C2_Witness ==
    /\ Main /\ pc = "final"
    /\ repoPaths = <<sR1, sR2>>
    /\ Skipped = <<sR1>>
    /\ Finished = <<sR2>>
    /\ sA \in DOMAIN userRepos /\ userRepos[sA] = {sR2}

\* ---------------------------------------------------------------- the accumulators
FGe(a, b) == FGt(a, b) \/ FEq(a, b)

InSeq(q, x) == \E n \in DOMAIN q : q[n] = x

\* The accumulators agree with each other, with the alias table and with the
\* repositories walked so far; every ranked owner counts a repository.
C11_State ==
    Main =>
        /\ DOMAIN userScores = DOMAIN userRepos
        /\ \A e \in DOMAIN userRepos :
             /\ userRepos[e] # {}
             /\ \A r \in userRepos[e] : InSeq(Attempted, r)
        /\ DOMAIN userAliases \subseteq DOMAIN userScores
        /\ \A c \in DOMAIN userAliases :
             /\ c \notin userAliases[c]
             /\ \A a \in userAliases[c] : a \in DOMAIN aliasMap /\ aliasMap[a] = c
        /\ \A n \in DOMAIN owners : owners[n].RepoCount >= 1

\* No step removes an owner, a repository or an alias.
C11_Kept ==
    Main =>
        /\ DOMAIN userScores \subseteq DOMAIN userScores'
        /\ \A e \in DOMAIN userRepos :
             e \in DOMAIN userRepos' /\ userRepos[e] \subseteq userRepos'[e]
        /\ \A e \in DOMAIN userAliases :
             e \in DOMAIN userAliases' /\ userAliases[e] \subseteq userAliases'[e]

\* No step lowers a score or replaces a number by something that is not one.
C11_Increased ==
    Main =>
        \A e \in DOMAIN userScores \cap DOMAIN userScores' :
            IsNaN(userScores[e]) \/ FGe(userScores'[e], userScores[e])

\* C11: at every moment userScores and userRepos have the same keys, every
\* repository set is non-empty and holds only repositories walked, every key of
\* userAliases is a key of userScores, no alias set holds its own canonical id,
\* every recorded alias maps to its canonical id in the alias table, every ranked
\* owner counts at least one repository; and no step removes an entry or lowers
\* a score.
C11_AccumulatorsConsistent ==
    /\ []C11_State
    /\ [][C11_Kept /\ C11_Increased]_vars

====
